---- MODULE Spec2Model ----
(***************************************************************************)
(* Model of the actix-blockchain ledger: the Blockchain (chain + pending   *)
(* transactions) behind one Mutex, the MiningWorker actors that run the    *)
(* Proof-of-Work search under that Mutex, the MutexTransactionList pool    *)
(* fed by the HTTP handler add_transaction, and the wall clock the         *)
(* candidate block's timestamp is read from.                               *)
(***************************************************************************)
EXTENDS Integers, Sequences, FiniteSets, TLC

(***************************************************************************)
(* Bounds of the model.                                                    *)
(***************************************************************************)
\* config.rs:64 miner_count: the MiningWorker actors SyncArbiter::start creates
NumWorkers == 2
\* number of wall-clock seconds that pass during a behaviour
MaxTime == 1
\* number of MiningMessage requests sent during a behaviour
MaxRequests == 1
\* number of transactions pushed into the pool during a behaviour
MaxSubmits == 2
\* number of POST /add_transaction requests served during a behaviour
MaxPosts == 1
\* number of MutexTransactionList::into_vec calls during a behaviour
MaxDrains == 2
\* number of direct Blockchain::add_transaction calls (library use)
MaxAdds == 2
\* number of blocks a direct user of Blockchain appends (library use)
MaxBlocks == 2
\* number of get_count calls between two changes of the pool
MaxCounts == 2
\* number of threads that call into_vec / get_count on the shared pool
NumCallers == 2
\* largest previous_proof given to the standalone proof_of_work
MaxPrevious == 3

(***************************************************************************)
(* The digest.  sha256::digest yields 64 hexadecimal characters; the model *)
(* keeps a digest of DigestLen digits in base HashBase, computed from      *)
(* every field of the serialized block.                                    *)
(***************************************************************************)
HashBase == 2
DigestLen == 6
\* width of the unsigned integers of the standalone proof_of_work (u64,
\* reduced from 64)
WordBits == 8
\* blockchain.rs:285 block_hash.starts_with("0000")
PrefixLen == 4

RECURSIVE Pow(_, _)
Pow(b, e) == IF e = 0 THEN 1 ELSE b * Pow(b, e - 1)

HashSpace == Pow(HashBase, DigestLen)

Workers == 1..NumWorkers

(***************************************************************************)
(* Transaction (both definitions: model/transaction.rs, model/blockchain.rs)*)
(***************************************************************************)
Transaction(sender, receiver, amount) ==
    [sender |-> sender, receiver |-> receiver, amount |-> amount]

\* faulty is_valid: only positive amounts pass
is_valid_positive(t) == t.sender # "" /\ t.receiver # "" /\ t.amount > 0

\* transaction.rs Transaction::is_valid
is_valid(t) == t.sender # "" /\ t.receiver # "" /\ t.amount # 0

\* blockchain.rs Transaction::is_valid
blockchain_is_valid(t) == ~(t.sender = "") /\ ~(t.receiver = "") /\ t.amount # 0

\* miner/mod.rs:104 add_transaction_from_data("blockchain", "Miner", 10f64)
Reward == Transaction("blockchain", "Miner", 10)

\* payloads a client posts to /add_transaction (valid and invalid ones)
Payloads ==
    { Transaction("sender1", "receiver1", 5),
      Transaction("sender2", "receiver2", -7),
      Transaction("", "x", 1),
      Transaction("x", "", 1),
      Transaction("sender1", "receiver1", 0) }

\* the payloads posted while the workers are observed: one valid, one not
Posts ==
    { Transaction("sender1", "receiver1", 5),
      Transaction("", "x", 1) }

(***************************************************************************)
(* Block                                                                   *)
(***************************************************************************)
\* Option<Vec<Transaction>>: None, or Some(v)
None == [some |-> FALSE, v |-> <<>>]
Some(v) == [some |-> TRUE, v |-> v]

\* Block::build_block: the timestamp is the current second, the
\* transactions are moved out of the Option (None gives the empty Vec)
Block_build_block(index, proof, previous_hash, txs, clock) ==
    [index |-> index,
     timestamp |-> clock,
     proof |-> proof,
     previous_hash |-> previous_hash,
     transactions |-> IF txs.some THEN txs.v ELSE <<>>]

\* Block::to_json: every field of the block, in declaration order
to_json(b) ==
    <<b.index, b.timestamp, b.proof, b.previous_hash, b.transactions>>

Names == <<"", "x", "sender1", "receiver1", "sender2", "receiver2",
           "blockchain", "Miner">>
NameNum(s) == CHOOSE i \in 1..Len(Names) : Names[i] = s
AmountNum(a) == IF a < 0 THEN 1 - 2 * a ELSE 2 * a
TxNum(t) == NameNum(t.sender) + 3 * NameNum(t.receiver) + 5 * AmountNum(t.amount)

RECURSIVE TxsNum(_)
TxsNum(txs) ==
    IF txs = <<>> THEN 1
    ELSE (3 * TxsNum(SubSeq(txs, 1, Len(txs) - 1)) + TxNum(txs[Len(txs)])) % HashSpace

RECURSIVE DigitsNum(_)
DigitsNum(h) ==
    IF h = <<>> THEN 1
    ELSE (HashBase * DigitsNum(SubSeq(h, 1, Len(h) - 1)) + h[Len(h)]) % HashSpace

\* the digits of n, most significant first
Digits(n) == [i \in 1..DigestLen |-> (n \div Pow(HashBase, DigestLen - i)) % HashBase]

\* sha256::digest of the serialized block
digest(json) ==
    Digits((7 * json[1] + 3 * json[2] + 17 * json[3]
            + 11 * DigitsNum(json[4]) + 13 * TxsNum(json[5])) % HashSpace)

\* Block::to_hash
to_hash(b) == digest(to_json(b))

\* str::starts_with("0000")
starts_with(h, n) == Len(h) >= n /\ \A i \in 1..n : h[i] = 0

\* Block::update_timestamp(None)
update_timestamp(b, clock) == [b EXCEPT !.timestamp = clock]

\* String::from("0"): previous_hash of the first block
Sentinel == <<0>>

NoBlock == Block_build_block(0, 0, <<>>, None, 0)

(***************************************************************************)
(* Blockchain                                                              *)
(***************************************************************************)
\* faulty get_last_block_index: the index of the first block
get_last_block_index_first(c) == IF Len(c) > 0 THEN c[1].index ELSE 0

get_last_block_index(c) == IF Len(c) > 0 THEN c[Len(c)].index ELSE 0

\* faulty get_last_block: the length test is inverted
get_last_block_none(c) == IF Len(c) > 0 THEN None ELSE Some(NoBlock)

\* Blockchain::get_last_block: Some(&chain[len - 1]), None on an empty chain
get_last_block(c) == IF Len(c) > 0 THEN Some(c[Len(c)]) ELSE None

\* faulty add_transaction: the transaction is pushed twice
add_transaction_twice(txs, t) ==
    IF txs.some THEN Some(Append(Append(txs.v, t), t)) ELSE Some(<<t, t>>)

\* faulty add_transaction: the transaction is put in front
add_transaction_front(txs, t) == IF txs.some THEN Some(<<t>> \o txs.v) ELSE Some(<<t>>)

\* faulty add_transaction: a first transaction is dropped
add_transaction_lost(txs, t) == IF txs.some THEN Some(Append(txs.v, t)) ELSE txs

\* Blockchain::add_transaction on the Option<Vec<Transaction>>
add_transaction(txs, t) == IF txs.some THEN Some(Append(txs.v, t)) ELSE Some(<<t>>)

\* faulty take: the pending transactions are cloned, not taken
take_clone(txs) == txs

\* Option::take on self.transactions: what is left behind
take(txs) == None

\* faulty last_hash: an empty chain gives the empty string, not "0"
last_hash_empty(c) == IF Len(c) > 0 THEN to_hash(c[Len(c)]) ELSE <<>>

\* faulty last_hash: the previous hash is never looked up
last_hash_unlinked(c) == Sentinel

\* proof_of_work: last_hash
last_hash(c) == IF Len(c) > 0 THEN to_hash(c[Len(c)]) ELSE Sentinel

\* faulty next_index: the tip's index is reused
next_index_same(c) == IF Len(c) > 0 THEN c[Len(c)].index ELSE 1

\* proof_of_work: next_index
next_index(c) == IF Len(c) > 0 THEN c[Len(c)].index + 1 ELSE 1

\* proof_of_work: one pass of the loop body up to the hash: the candidate
\* gets the proof under test, a fresh timestamp, and whatever is pending
candidate(b, proof, clock, txs) ==
    [update_timestamp([b EXCEPT !.proof = proof], clock)
        EXCEPT !.transactions = IF txs.some THEN @ \o txs.v ELSE @]

\* proof_of_work: the pending Option after the loop body drained it
drained(txs) == IF txs.some THEN Some(<<>>) ELSE txs

\* faulty proof_matches: the prefix test is one character short
proof_matches_short(b) == starts_with(to_hash(b), PrefixLen - 1)

\* proof_of_work: proof_matches
proof_matches(b) == starts_with(to_hash(b), PrefixLen)


(***************************************************************************)
(* State                                                                   *)
(***************************************************************************)
VARIABLES
    chain,         \* Blockchain.chain
    transactions,  \* Blockchain.transactions: Option<Vec<Transaction>>
    holder,        \* thread holding the Mutex<Blockchain> (NoHolder: free)
    now,           \* SystemTime::now() in seconds
    pc,            \* position of each thread
    task,          \* what a worker is running: "started", "handle" or "none"
    new_block,     \* proof_of_work: local new_block of each thread
    new_proof,     \* proof_of_work: local new_proof of each thread
    proof,         \* value returned by a thread's last proof_of_work
    sealed,        \* index of the block a thread's current pass pushed
    begun,         \* mine_block: accepted submissions when the running search locked
    seen,          \* handle: number of accepted submissions when the request was sent
    reply,         \* handle: the last Result a worker returned
    mailbox,       \* MiningMessages sent to the SyncArbiter, not yet received
    sent,          \* number of MiningMessages sent so far
    pool,          \* MutexTransactionList.transaction_mutex: Vec<Transaction>
    poolHolder,    \* caller holding the pool's Mutex (NoHolder: free)
    export,        \* into_vec: local export of each pool caller
    submitLog,     \* every transaction pushed into the pool, in push order
    drainLog,      \* every Vec returned by into_vec, in return order
    counted,       \* values returned by get_count since the last push or drain
    posted,        \* number of POST /add_transaction requests served
    request,       \* payload of the last POST /add_transaction request
    httpStatus,    \* status code of the last /add_transaction response
    added,         \* transactions given to Blockchain::add_transaction directly
    poisoned,      \* the Mutex<Blockchain> is poisoned: a holder panicked
    poolPoisoned,  \* the pool's Mutex is poisoned: a holder panicked
    solo           \* the standalone proof_of_work(previous_proof): its frame

vars == <<chain, transactions, holder, now, pc, task, new_block, new_proof,
          proof, sealed, begun, seen, reply, mailbox, sent, pool, poolHolder, export,
          submitLog, drainLog, counted, posted, request, httpStatus, added,
          poisoned, poolPoisoned, solo>>

ledgerVars == <<chain, transactions, holder>>
workerVars == <<pc, task, new_block, new_proof, proof, sealed, begun, seen, reply>>
mailVars == <<mailbox, sent>>
faultVars == <<poisoned, poolPoisoned>>
poolVars == <<pool, poolHolder, export, submitLog, drainLog, counted, posted,
             request, httpStatus>>

NoHolder == 0 - 1
\* the thread that owns a Blockchain directly (&mut self, no Mutex)
Owner == NumWorkers + 1
Threads == {Owner} \cup Workers
\* callers of into_vec / get_count on the shared pool
Callers == 1..NumCallers

\* faulty lock: the Mutex<Blockchain> excludes nobody
lock_always(h) == TRUE

\* blockchain_mutex.lock() returns once no thread holds the guard
lock(h) == h = NoHolder

\* faulty pool_lock: the pool and the Blockchain share one Mutex
pool_lock_shared(ph, h) == ph = NoHolder /\ h = NoHolder

\* transaction_mutex.lock(): a Mutex of its own, whoever holds the Blockchain
pool_lock(ph, h) == ph = NoHolder

NoReply == [status |-> "none", index |-> 0, proof |-> 0, block |-> NoBlock]

\* u64::MAX, and the value an operation wraps to when overflow checks are off
WordMax == Pow(2, WordBits) - 1
wrap(n) == n % (WordMax + 1)

\* the frame of a call: previous_proof, new_proof, the last difference
\* hashed, whether the build checks overflow (debug) or wraps (release), and
\* what the arithmetic of the last pass did
NoCall ==
    [pc |-> "idle", previous_proof |-> 0, new_proof |-> 0, operand |-> 0,
     overflow_checks |-> FALSE, outcome |-> "none"]

\* Blockchain::new, MutexTransactionList::new, actors constructed
Init ==
    /\ chain = <<>>
    /\ transactions = None
    /\ holder = NoHolder
    /\ now = 0
    /\ pc = [th \in Threads |-> IF th = Owner THEN "idle" ELSE "new"]
    /\ task = [th \in Threads |-> "none"]
    /\ new_block = [th \in Threads |-> NoBlock]
    /\ new_proof = [th \in Threads |-> 0]
    /\ proof = [th \in Threads |-> 0]
    /\ sealed = [th \in Threads |-> 0]
    /\ begun = [th \in Threads |-> 0]
    /\ seen = [th \in Threads |-> 0]
    /\ reply = [th \in Threads |-> NoReply]
    /\ mailbox = <<>>
    /\ sent = 0
    /\ pool = <<>>
    /\ poolHolder = NoHolder
    /\ export = [c \in Callers |-> <<>>]
    /\ submitLog = <<>>
    /\ drainLog = <<>>
    /\ counted = <<>>
    /\ posted = 0
    /\ request = Transaction("", "", 0)
    /\ httpStatus = 0
    /\ added = {}
    /\ poisoned = FALSE
    /\ poolPoisoned = FALSE
    /\ solo = NoCall

(***************************************************************************)
(* Blockchain::proof_of_work, run by thread th on the shared Blockchain    *)
(***************************************************************************)
\* faulty push: the new block is not stored
push_dropped(c, b) == c

\* faulty push: the new block is put in front of the chain
push_front(c, b) == <<b>> \o c

\* faulty push: the new block replaces the tip
push_over(c, b) == IF Len(c) = 0 THEN <<b>> ELSE [c EXCEPT ![Len(c)] = b]

\* self.chain.push(block)
push(c, b) == Append(c, b)

\* lines 257-273: read the tip, build the candidate, take the pending ones
PowBegin(th) ==
    /\ new_block' = [new_block EXCEPT ![th] =
          Block_build_block(next_index(chain), 0, last_hash(chain), transactions, now)]
    /\ new_proof' = [new_proof EXCEPT ![th] = 0]
    /\ sealed' = [sealed EXCEPT ![th] = 0]
    /\ transactions' = take(transactions)
    /\ UNCHANGED chain

\* faulty next_proof: every second proof is skipped
next_proof_skip(p) == p + 2

\* line 289: new_proof += 1
next_proof(p) == p + 1

\* the block the loop body hashes in this pass
Tried(th) == candidate(new_block[th], new_proof[th], now, transactions)

\* lines 275-291, a pass that does not match: next proof
PowMiss(th) ==
    /\ ~proof_matches(Tried(th))
    /\ new_block' = [new_block EXCEPT ![th] = Tried(th)]
    /\ new_proof' = [new_proof EXCEPT ![th] = next_proof(@)]
    /\ transactions' = drained(transactions)
    /\ UNCHANGED <<chain, sealed, proof>>

\* lines 275-296, the pass that matches: leave the loop, push, return
PowHit(th) ==
    /\ proof_matches(Tried(th))
    /\ new_block' = [new_block EXCEPT ![th] = NoBlock]
    /\ chain' = push(chain, Tried(th))
    /\ sealed' = [sealed EXCEPT ![th] = Tried(th).index]
    /\ proof' = [proof EXCEPT ![th] = new_proof[th]]
    /\ transactions' = drained(transactions)
    /\ UNCHANGED new_proof

(***************************************************************************)
(* MiningWorker                                                            *)
(***************************************************************************)
\* faulty get_block_count: never 0
get_block_count_more(c) == Len(c) + 1

\* MiningWorker::get_block_count: blockchain.chain.len()
get_block_count(c) == Len(c)

\* Actor::started: get_block_count() locks, reads chain.len(), unlocks
Started(w) ==
    /\ pc[w] = "new"
    /\ lock(holder)
    /\ ~poisoned
    /\ pc' = [pc EXCEPT ![w] = IF get_block_count(chain) = 0 THEN "mine" ELSE "idle"]
    /\ task' = [task EXCEPT ![w] = IF get_block_count(chain) = 0 THEN "started" ELSE "none"]
    /\ UNCHANGED <<ledgerVars, now, new_block, new_proof, proof, sealed, seen,
                   reply, mailVars, poolVars, added, begun, faultVars, solo>>

\* the dispatcher hands the oldest MiningMessage to an idle worker
Receive(w) ==
    /\ pc[w] = "idle"
    /\ mailbox # <<>>
    /\ mailbox' = Tail(mailbox)
    /\ seen' = [seen EXCEPT ![w] = Head(mailbox)]
    /\ pc' = [pc EXCEPT ![w] = "mine"]
    /\ task' = [task EXCEPT ![w] = "handle"]
    /\ reply' = [reply EXCEPT ![w] = NoReply]
    /\ UNCHANGED <<ledgerVars, now, new_block, new_proof, proof, sealed, sent,
                   poolVars, added, begun, faultVars, solo>>

\* mine_block: blockchain_mutex.lock() succeeds, proof_of_work starts
MineLock(w) ==
    /\ pc[w] = "mine"
    /\ lock(holder)
    /\ ~poisoned
    /\ holder' = w
    /\ PowBegin(w)
    /\ begun' = [begun EXCEPT ![w] = Len(submitLog)]
    /\ pc' = [pc EXCEPT ![w] = "search"]
    /\ UNCHANGED <<now, task, proof, seen, reply, mailVars, poolVars, added,
                   faultVars, solo>>

\* mine_block: one pass of the search loop that fails the prefix test
SearchMiss(w) ==
    /\ pc[w] = "search"
    /\ holder = w
    /\ PowMiss(w)
    /\ UNCHANGED <<holder, now, pc, task, seen, reply, mailVars, poolVars,
                   added, begun, faultVars, solo>>

\* mine_block: the pass that passes the prefix test; the block is pushed
SearchHit(w) ==
    /\ pc[w] = "search"
    /\ holder = w
    /\ PowHit(w)
    /\ pc' = [pc EXCEPT ![w] = "mined"]
    /\ begun' = [begun EXCEPT ![w] = 0]
    /\ UNCHANGED <<holder, now, task, seen, reply, mailVars, poolVars, added,
                   faultVars, solo>>

\* faulty drop_guard: the guard is never dropped
drop_guard_leaked(h) == h

\* the MutexGuard goes out of scope: the Mutex is free again
drop_guard(h) == NoHolder

\* mine_block lines 104-106: queue the reward, return Ok(proof), drop the guard
MineReturn(w) ==
    /\ pc[w] = "mined"
    /\ holder = w
    /\ transactions' = add_transaction(transactions, Reward)
    /\ holder' = drop_guard(holder)
    /\ pc' = [pc EXCEPT ![w] = IF task[w] = "handle" THEN "report" ELSE "idle"]
    /\ task' = [task EXCEPT ![w] = IF task[w] = "handle" THEN "handle" ELSE "none"]
    /\ UNCHANGED <<chain, now, new_block, new_proof, proof, sealed, begun, seen,
                   reply, mailVars, poolVars, added, faultVars, solo>>

\* handle lines 186-225: lock again, read the tip, build the response
report(c, p) ==
    LET block == get_last_block(c)
    IN  IF block.some
        THEN [status |-> "success", index |-> block.v.index, proof |-> p,
              block |-> block.v]
        ELSE [status |-> "empty", index |-> 0, proof |-> 0, block |-> NoBlock]

Report(w) ==
    /\ pc[w] = "report"
    /\ lock(holder)
    /\ ~poisoned
    /\ reply' = [reply EXCEPT ![w] = report(chain, proof[w])]
    /\ pc' = [pc EXCEPT ![w] = "idle"]
    /\ task' = [task EXCEPT ![w] = "none"]
    /\ UNCHANGED <<ledgerVars, now, new_block, new_proof, proof, sealed, seen,
                   mailVars, poolVars, added, begun, faultVars, solo>>

(***************************************************************************)
(* MiningWorker: a poisoned Mutex<Blockchain>                              *)
(***************************************************************************)
\* the MiningError of a lock() that returned Err(PoisonError)
Failed == [status |-> "failed", index |-> 0, proof |-> 0, block |-> NoBlock]

\* mine_block line 98: println! panics (stdout is gone) right after the
\* lock was taken; the guard is dropped by the unwinding thread, poisoned
PanicStart(w) ==
    /\ pc[w] = "mine"
    /\ lock(holder)
    /\ ~poisoned
    /\ poisoned' = TRUE
    /\ pc' = [pc EXCEPT ![w] = "dead"]
    /\ UNCHANGED <<ledgerVars, now, task, new_block, new_proof, proof, sealed,
                   begun, seen, reply, mailVars, poolVars, added,
                   poolPoisoned, solo>>

\* proof_of_work line 287: println! panics in the pass that matched, before
\* the push; the candidate, with the transactions taken, is dropped
PanicHit(w) ==
    /\ pc[w] = "search"
    /\ holder = w
    /\ proof_matches(Tried(w))
    /\ poisoned' = TRUE
    /\ holder' = drop_guard(holder)
    /\ transactions' = drained(transactions)
    /\ new_block' = [new_block EXCEPT ![w] = NoBlock]
    /\ begun' = [begun EXCEPT ![w] = 0]
    /\ pc' = [pc EXCEPT ![w] = "dead"]
    /\ UNCHANGED <<chain, now, task, new_proof, proof, sealed, seen, reply,
                   mailVars, poolVars, added, poolPoisoned, solo>>

\* Actor::started on a poisoned lock: get_block_count returns 0 (line 128),
\* mine_block returns Err (line 108), the error is printed
StartedPoisoned(w) ==
    /\ pc[w] = "new"
    /\ lock(holder)
    /\ poisoned
    /\ pc' = [pc EXCEPT ![w] = "idle"]
    /\ UNCHANGED <<ledgerVars, now, task, new_block, new_proof, proof, sealed,
                   begun, seen, reply, mailVars, poolVars, added, faultVars,
                   solo>>

\* mine_block lines 108-111: lock() returns Err; handle returns it through
\* the ? operator, started() prints it
MineFailed(w) ==
    /\ pc[w] = "mine"
    /\ lock(holder)
    /\ poisoned
    /\ reply' = [reply EXCEPT ![w] = IF task[w] = "handle" THEN Failed ELSE @]
    /\ pc' = [pc EXCEPT ![w] = "idle"]
    /\ task' = [task EXCEPT ![w] = "none"]
    /\ UNCHANGED <<ledgerVars, now, new_block, new_proof, proof, sealed, begun,
                   seen, mailVars, poolVars, added, faultVars, solo>>

\* handle lines 212-217: the second lock() returns Err
ReportFailed(w) ==
    /\ pc[w] = "report"
    /\ lock(holder)
    /\ poisoned
    /\ reply' = [reply EXCEPT ![w] = Failed]
    /\ pc' = [pc EXCEPT ![w] = "idle"]
    /\ task' = [task EXCEPT ![w] = "none"]
    /\ UNCHANGED <<ledgerVars, now, new_block, new_proof, proof, sealed, begun,
                   seen, mailVars, poolVars, added, faultVars, solo>>

\* dispatch_mining_request: MinerLink sends a MiningMessage
SendMine ==
    /\ sent < MaxRequests
    /\ sent' = sent + 1
    /\ mailbox' = Append(mailbox, Len(submitLog))
    /\ UNCHANGED <<ledgerVars, now, workerVars, poolVars, added, faultVars,
                   solo>>

\* the wall clock reaches the next second
Tick ==
    /\ now < MaxTime
    /\ now' = now + 1
    /\ UNCHANGED <<ledgerVars, workerVars, mailVars, poolVars, added,
                   faultVars, solo>>


(***************************************************************************)
(* MutexTransactionList and the handler of POST /add_transaction           *)
(***************************************************************************)
\* MutexTransactionList::add_transaction: transactions.push(transaction)
pool_add_transaction(v, t) == Append(v, t)

\* lib.rs add_transaction: the statuscode of the response to payload t
add_transaction_status(t) == IF is_valid(t) THEN 201 ELSE 400

\* faulty add_transaction_pool: the handler pushes without validating
add_transaction_pool_unchecked(v, t) == pool_add_transaction(v, t)

\* lib.rs add_transaction: the pool after the request with payload t
add_transaction_pool(v, t) == IF is_valid(t) THEN pool_add_transaction(v, t) ELSE v

\* lib.rs add_transaction, lines 83-121: validate, then lock and push
HttpAddTransaction(t) ==
    /\ posted < MaxPosts
    /\ is_valid(t) => (pool_lock(poolHolder, holder) /\ ~poolPoisoned)
    /\ posted' = posted + 1
    /\ request' = t
    /\ pool' = add_transaction_pool(pool, t)
    /\ httpStatus' = add_transaction_status(t)
    /\ submitLog' = IF httpStatus' = 201 THEN Append(submitLog, t) ELSE submitLog
    /\ counted' = IF pool' = pool THEN counted ELSE <<>>
    /\ UNCHANGED <<ledgerVars, now, workerVars, mailVars, poolHolder, export,
                   drainLog, added, faultVars, solo>>

\* MutexTransactionList::add_transaction called directly (as the unit tests do)
PoolAddTransaction(t) ==
    /\ Len(submitLog) < MaxSubmits
    /\ pool_lock(poolHolder, holder)
    /\ ~poolPoisoned
    /\ pool' = pool_add_transaction(pool, t)
    /\ submitLog' = Append(submitLog, t)
    /\ counted' = <<>>
    /\ UNCHANGED <<ledgerVars, now, workerVars, mailVars, poolHolder, export,
                   drainLog, posted, request, httpStatus, added, faultVars,
                   solo>>

\* into_vec: transaction_mutex.lock(), export = Vec::with_capacity(len)
IntoVecLock(c) ==
    /\ Len(drainLog) < MaxDrains
    /\ pool_lock(poolHolder, holder)
    /\ poolHolder' = c
    /\ export' = [export EXCEPT ![c] = <<>>]
    /\ UNCHANGED <<ledgerVars, now, workerVars, mailVars, pool, submitLog,
                   drainLog, counted, posted, request, httpStatus, added,
                   faultVars, solo>>

\* into_vec: transactions.drain(..) hands over its first element
drain_rest(v) == Tail(v)

\* faulty export_push: the element handed over is not kept
export_push_lost(e, v) == e

\* faulty export_push: the element handed over is kept twice
export_push_twice(e, v) == Append(Append(e, Head(v)), Head(v))

\* into_vec: export.push(t) for the element drain(..) handed over
export_push(e, v) == Append(e, Head(v))

IntoVecMove(c) ==
    /\ poolHolder = c
    /\ pool # <<>>
    /\ export' = [export EXCEPT ![c] = export_push(@, pool)]
    /\ pool' = drain_rest(pool)
    /\ UNCHANGED <<ledgerVars, now, workerVars, mailVars, poolHolder, submitLog,
                   drainLog, counted, posted, request, httpStatus, added,
                   faultVars, solo>>

\* into_vec: the Vec is drained; return export, drop the guard
IntoVecReturn(c) ==
    /\ poolHolder = c
    /\ pool = <<>>
    /\ drainLog' = Append(drainLog, export[c])
    /\ export' = [export EXCEPT ![c] = <<>>]
    /\ poolHolder' = NoHolder
    /\ counted' = <<>>
    /\ UNCHANGED <<ledgerVars, now, workerVars, mailVars, pool, submitLog,
                   posted, request, httpStatus, added, faultVars, solo>>

\* get_count: lock, transactions.len(), unlock
get_count(v) == Len(v)

\* faulty get_count_vec: the Vec is drained to count it
get_count_vec_drained(v) == <<>>

\* get_count: the Vec behind guard.deref(), a shared borrow, after the call
get_count_vec(v) == v

GetCount ==
    /\ Len(counted) < MaxCounts
    /\ pool_lock(poolHolder, holder)
    /\ counted' = Append(counted, get_count(pool))
    /\ pool' = get_count_vec(pool)
    /\ UNCHANGED <<ledgerVars, now, workerVars, mailVars, poolHolder,
                   export, submitLog, drainLog, posted, request, httpStatus,
                   added, faultVars, solo>>

(***************************************************************************)
(* MutexTransactionList: a poisoned Mutex                                  *)
(***************************************************************************)
\* a caller that took the guard panics where the method allocates (push in
\* add_transaction, Vec::with_capacity in into_vec), before the Vec is
\* touched; the guard is dropped by the unwinding thread, poisoned
PoolPanic ==
    /\ pool_lock(poolHolder, holder)
    /\ ~poolPoisoned
    /\ poolPoisoned' = TRUE
    /\ UNCHANGED <<ledgerVars, now, workerVars, mailVars, poolVars, added,
                   poisoned, solo>>

\* faulty add_transaction_poisoned: the Err arm pushes all the same
add_transaction_poisoned_pushed(v, t) == Append(v, t)

\* MutexTransactionList::add_transaction, Err arm (lines 157-160): the Vec
\* behind the poisoned guard is left alone
add_transaction_poisoned(v, t) == v

\* add_transaction: the status of the TransactionMutexError, if any
add_transaction_result(p) == IF p THEN "failed" ELSE "ok"

\* lib.rs add_transaction, lines 93 and 108-119: add_transaction returned
\* Err, the response is 500
HttpAddTransactionFailed(t) ==
    /\ posted < MaxPosts
    /\ is_valid(t)
    /\ pool_lock(poolHolder, holder)
    /\ poolPoisoned
    /\ posted' = posted + 1
    /\ request' = t
    /\ pool' = add_transaction_poisoned(pool, t)
    /\ httpStatus' = IF add_transaction_result(poolPoisoned) = "failed" THEN 500 ELSE 201
    /\ counted' = IF pool' = pool THEN counted ELSE <<>>
    /\ UNCHANGED <<ledgerVars, now, workerVars, mailVars, poolHolder, export,
                   submitLog, drainLog, added, faultVars, solo>>

(***************************************************************************)
(* A Blockchain used directly by its owner (&mut self), without workers    *)
(***************************************************************************)
\* Blockchain::add_transaction(transaction)
OwnerAddTransaction(t) ==
    /\ pc[Owner] = "idle"
    /\ Cardinality(added) < MaxAdds
    /\ t \notin added
    /\ added' = added \cup {t}
    /\ transactions' = add_transaction(transactions, t)
    /\ UNCHANGED <<chain, holder, now, workerVars, mailVars, poolVars,
                   faultVars, solo>>

\* faulty build_block: a block that does not link to the tip is refused
build_block_checked(c, txs, p, previous_hash, clock) ==
    IF previous_hash = last_hash(c)
    THEN push(c, Block_build_block(get_last_block_index(c) + 1, p, previous_hash, txs, clock))
    ELSE c

\* Blockchain::build_block(proof, previous_hash)
build_block(c, txs, p, previous_hash, clock) ==
    push(c, Block_build_block(get_last_block_index(c) + 1, p, previous_hash, txs, clock))

OwnerBuildBlock(p, previous_hash) ==
    /\ pc[Owner] = "idle"
    /\ Len(chain) < MaxBlocks
    /\ chain' = build_block(chain, transactions, p, previous_hash, now)
    /\ transactions' = take(transactions)
    /\ UNCHANGED <<holder, now, workerVars, mailVars, poolVars, added,
                   faultVars, solo>>

\* Blockchain::proof_of_work(), entered
OwnerProofOfWork ==
    /\ pc[Owner] = "idle"
    /\ Len(chain) < MaxBlocks
    /\ PowBegin(Owner)
    /\ pc' = [pc EXCEPT ![Owner] = "search"]
    /\ UNCHANGED <<holder, now, task, proof, seen, reply, mailVars, poolVars,
                   added, begun, faultVars, solo>>

OwnerMiss ==
    /\ pc[Owner] = "search"
    /\ PowMiss(Owner)
    /\ UNCHANGED <<holder, now, pc, task, seen, reply, mailVars, poolVars,
                   added, begun, faultVars, solo>>

OwnerHit ==
    /\ pc[Owner] = "search"
    /\ PowHit(Owner)
    /\ pc' = [pc EXCEPT ![Owner] = "idle"]
    /\ UNCHANGED <<holder, now, task, seen, reply, mailVars, poolVars, added,
                   begun, faultVars, solo>>

\* previous_hash values a direct caller of build_block passes
PreviousHashes == {last_hash(chain), Digits(HashSpace - 1)}

\* transactions a direct caller of Blockchain::add_transaction passes
Additions ==
    { Transaction("sender1", "receiver1", 5),
      Transaction("sender2", "receiver2", -7),
      Transaction("", "x", 1) }

(***************************************************************************)
(* proof_of_work(previous_proof), the standalone function                  *)
(***************************************************************************)
\* line 335: new_proof.pow(2) - previous_proof.pow(2) leaves the range of u64
overflows(new, previous) ==
    \/ new * new > WordMax
    \/ previous * previous > WordMax
    \/ new * new < previous * previous

\* line 335: the value the wrapping arithmetic gives
difference(new, previous) ==
    wrap(wrap(new * new) + (WordMax + 1) - wrap(previous * previous))

\* line 335: digest(format!("{}", n))
hash_operation(n) == Digits((7 * n + 24) % HashSpace)

\* lines 331-332: the function is entered
SoloCall(p, checks) ==
    /\ solo.pc # "loop"
    /\ solo' = [pc |-> "loop", previous_proof |-> p, new_proof |-> 1,
                operand |-> 0, overflow_checks |-> checks, outcome |-> "none"]
    /\ UNCHANGED <<ledgerVars, now, workerVars, mailVars, poolVars, added, faultVars>>

\* line 335 in a build with overflow checks: the arithmetic panics
SoloPanic ==
    /\ solo.pc = "loop"
    /\ solo.overflow_checks
    /\ overflows(solo.new_proof, solo.previous_proof)
    /\ solo' = [solo EXCEPT !.pc = "panicked", !.outcome = "panicked"]
    /\ UNCHANGED <<ledgerVars, now, workerVars, mailVars, poolVars, added, faultVars>>

\* what line 335 leaves in the frame when it does not panic
computed(f) ==
    [f EXCEPT !.operand = difference(f.new_proof, f.previous_proof),
              !.outcome = IF overflows(f.new_proof, f.previous_proof)
                          THEN "wrapped" ELSE "exact"]

\* lines 335-345, a pass whose hash has no prefix: new_proof += 1
SoloMiss ==
    /\ solo.pc = "loop"
    /\ ~(solo.overflow_checks /\ overflows(solo.new_proof, solo.previous_proof))
    /\ ~starts_with(hash_operation(computed(solo).operand), PrefixLen)
    /\ solo' = [computed(solo) EXCEPT !.new_proof = wrap(@ + 1)]
    /\ UNCHANGED <<ledgerVars, now, workerVars, mailVars, poolVars, added, faultVars>>

\* lines 335-348, the pass whose hash has the prefix: return new_proof
SoloHit ==
    /\ solo.pc = "loop"
    /\ ~(solo.overflow_checks /\ overflows(solo.new_proof, solo.previous_proof))
    /\ starts_with(hash_operation(computed(solo).operand), PrefixLen)
    /\ solo' = [computed(solo) EXCEPT !.pc = "done"]
    /\ UNCHANGED <<ledgerVars, now, workerVars, mailVars, poolVars, added, faultVars>>

(***************************************************************************)
(* Specifications                                                          *)
(***************************************************************************)
\* the running service: workers, mining requests, submissions, the clock
Next ==
    \/ \E w \in Workers : Started(w)
    \/ \E w \in Workers : Receive(w)
    \/ \E w \in Workers : MineLock(w)
    \/ \E w \in Workers : SearchMiss(w)
    \/ \E w \in Workers : SearchHit(w)
    \/ \E w \in Workers : MineReturn(w)
    \/ \E w \in Workers : Report(w)
    \/ SendMine
    \/ Tick
    \/ \E t \in Posts : HttpAddTransaction(t)

Spec == Init /\ [][Next]_vars

\* the pool alone: submissions through the handler and direct calls
NextPool ==
    \/ \E t \in Payloads : HttpAddTransaction(t)
    \/ \E t \in Payloads : PoolAddTransaction(t)
    \/ \E c \in Callers : IntoVecLock(c)
    \/ \E c \in Callers : IntoVecMove(c)
    \/ \E c \in Callers : IntoVecReturn(c)
    \/ GetCount

SpecPool == Init /\ [][NextPool]_vars

\* the Blockchain alone, driven by its owner
NextLedger ==
    \/ \E t \in Additions : OwnerAddTransaction(t)
    \/ \E p \in 0..1, h \in PreviousHashes : OwnerBuildBlock(p, h)
    \/ OwnerProofOfWork
    \/ OwnerMiss
    \/ OwnerHit
    \/ Tick

SpecLedger == Init /\ [][NextLedger]_vars

\* the pool in use while the workers start and mine their first blocks
NextBusy ==
    \/ \E w \in Workers : Started(w)
    \/ \E w \in Workers : MineLock(w)
    \/ \E w \in Workers : SearchMiss(w)
    \/ \E w \in Workers : SearchHit(w)
    \/ \E w \in Workers : MineReturn(w)
    \/ \E t \in Posts : HttpAddTransaction(t)
    \/ \E c \in Callers : IntoVecLock(c)
    \/ \E c \in Callers : IntoVecMove(c)
    \/ \E c \in Callers : IntoVecReturn(c)
    \/ GetCount

SpecBusy == Init /\ [][NextBusy]_vars

\* the workers and the mining requests alone
NextLive ==
    \/ \E w \in Workers : Started(w)
    \/ \E w \in Workers : Receive(w)
    \/ \E w \in Workers : MineLock(w)
    \/ \E w \in Workers : SearchMiss(w)
    \/ \E w \in Workers : SearchHit(w)
    \/ \E w \in Workers : MineReturn(w)
    \/ \E w \in Workers : Report(w)
    \/ SendMine
    \/ Tick

\* what worker w does next outside the search loop
WorkerStep(w) ==
    \/ Started(w)
    \/ Receive(w)
    \/ MineLock(w)
    \/ MineReturn(w)
    \/ Report(w)

\* every worker thread keeps running: a step it can take is taken (that a
\* search ends is not assumed here)
Fairness == \A w \in Workers : WF_vars(WorkerStep(w))

SpecLive == Init /\ [][NextLive]_vars /\ Fairness

\* the workers when a println! under the lock may panic
NextFault ==
    \/ NextLive
    \/ \E w \in Workers : PanicStart(w)
    \/ \E w \in Workers : PanicHit(w)
    \/ \E w \in Workers : StartedPoisoned(w)
    \/ \E w \in Workers : MineFailed(w)
    \/ \E w \in Workers : ReportFailed(w)

SpecFault == Init /\ [][NextFault]_vars

\* the pool when a holder of its lock may panic
NextPoolFault ==
    \/ \E t \in Posts : HttpAddTransaction(t)
    \/ \E t \in Posts : HttpAddTransactionFailed(t)
    \/ \E t \in Posts : PoolAddTransaction(t)
    \/ \E c \in Callers : IntoVecLock(c)
    \/ \E c \in Callers : IntoVecMove(c)
    \/ \E c \in Callers : IntoVecReturn(c)
    \/ GetCount
    \/ PoolPanic

SpecPoolFault == Init /\ [][NextPoolFault]_vars

\* calls of the standalone proof_of_work, in either kind of build
\* the arguments tried: the small proofs and u64::MAX
Previous == 0..MaxPrevious \cup {WordMax}

NextSolo ==
    \/ \E p \in Previous, checks \in BOOLEAN : SoloCall(p, checks)
    \/ SoloPanic
    \/ SoloMiss
    \/ SoloHit

SpecSolo == Init /\ [][NextSolo]_vars


(***************************************************************************)
(* Properties of the chain                                                 *)
(***************************************************************************)
Range(q) == {q[i] : i \in DOMAIN q}

\* a worker sealed a block while serving a MiningMessage
HandledPass(w) == task[w] = "handle" /\ pc[w] = "report"

\* C1: every block after the first carries, as previous_hash, the hash of
\* the block stored right before it in the chain.
C1_HashLinked ==
    \A i \in 2..Len(chain) : chain[i].previous_hash = to_hash(chain[i - 1])

\* three blocks are linked: two bootstrap passes and one served request
C1_Witness ==
    /\ Len(chain) >= 3
    /\ \E w \in Workers : HandledPass(w) /\ sealed[w] = 3

\* C2: the k-th block of the chain has index k.
C2_IndexIsPosition ==
    \A k \in 1..Len(chain) : chain[k].index = k

\* both workers ran a bootstrap pass and a request was served after them
C2_Witness ==
    /\ Len(chain) >= 3
    /\ \E w \in Workers : HandledPass(w) /\ sealed[w] = Len(chain)
    /\ \E w \in Workers : ~HandledPass(w) /\ sealed[w] = 2

\* C3: the first block has index 1 and the sentinel "0" as previous_hash.
C3_FirstBlock ==
    Len(chain) >= 1 => chain[1].index = 1 /\ chain[1].previous_hash = Sentinel

\* the second worker sealed the first block
C3_Witness ==
    Len(chain) >= 1 /\ sealed[2] = 1

\* C4: the hash of every block, as stored, starts with the required prefix.
C4_PrefixOnStoredBlocks ==
    \A k \in 1..Len(chain) : starts_with(to_hash(chain[k]), PrefixLen)

\* a block was sealed after the clock moved during its search, with a
\* proof other than the first one tried
C4_Witness ==
    \E k \in 1..Len(chain) : chain[k].timestamp > 0 /\ chain[k].proof > 0


(***************************************************************************)
(* Properties of submissions and mining                                    *)
(***************************************************************************)
\* number of positions of sequence q that hold x
RECURSIVE Occurrences(_, _)
Occurrences(x, q) ==
    IF q = <<>> THEN 0
    ELSE (IF Head(q) = x THEN 1 ELSE 0) + Occurrences(x, Tail(q))

\* the concatenation of the sequences in q
RECURSIVE Flatten(_)
Flatten(q) == IF q = <<>> THEN <<>> ELSE Head(q) \o Flatten(Tail(q))

\* the transactions of all blocks of chain c, in chain order
SealedTransactions(c) == Flatten([k \in 1..Len(c) |-> c[k].transactions])

\* C5: once a worker has sealed a block for a mine request, every
\* transaction the handler add_transaction accepted before that request was
\* sent is in the chain, no later than in the block this request sealed.
C5_SubmittedIsSealed ==
    \A w \in Workers :
        HandledPass(w) =>
            \A i \in 1..seen[w] :
                \E k \in 1..sealed[w] : submitLog[i] \in Range(chain[k].transactions)

\* C6: no transaction given to the ledger is in two blocks, twice in one
\* block, or both in a block and still pending.
C6_AtMostOnce ==
    \A t \in added :
        Occurrences(t, SealedTransactions(chain))
            + Occurrences(t, transactions.v) <= 1

\* two searches each sealed a block holding an added transaction
C6_Witness ==
    /\ Len(chain) = 2
    /\ \A k \in 1..2 : chain[k].transactions # <<>> /\ proof_matches(chain[k])
    /\ pc[Owner] = "idle"

\* C7: when into_vec returns, the Vecs returned so far, concatenated, are
\* exactly the transactions pushed so far in push order, and the pool is
\* empty.
C7_DrainReturnsAllInOrder ==
    [][Len(drainLog') = Len(drainLog) + 1 =>
          Flatten(drainLog') = submitLog' /\ pool' = <<>>]_vars

\* a drain returned two valid transactions that were pushed one after the other
C7_Witness ==
    /\ drainLog # <<>>
    /\ Len(drainLog[Len(drainLog)]) = 2
    /\ \A i \in 1..2 : is_valid(drainLog[Len(drainLog)][i])
    /\ drainLog[Len(drainLog)][1] # drainLog[Len(drainLog)][2]

\* what the caller holding the pool's lock has moved out so far
InFlight == IF poolHolder = NoHolder THEN <<>> ELSE export[poolHolder]

\* C8: in every state, each pushed transaction is in exactly one place: in
\* one returned Vec, in the export of the drain in progress, or in the pool.
C8_ExactlyOneDrain ==
    \A t \in Range(submitLog) :
        Occurrences(t, Flatten(drainLog)) + Occurrences(t, InFlight)
            + Occurrences(t, pool) = Occurrences(t, submitLog)

\* a push came between two drains: each drain returned one transaction
C8_Witness ==
    /\ Len(drainLog) = 2
    /\ Len(drainLog[1]) = 1
    /\ Len(drainLog[2]) = 1

\* C9 (as stated): no invalid transaction is ever accepted by the pool.
C9_Original ==
    \A i \in 1..Len(submitLog) : is_valid(submitLog[i])

\* C9 (amended): a POST /add_transaction with an invalid transaction is
\* answered 400 and leaves the pool and its accepted submissions unchanged.
C9_HandlerRejectsInvalid ==
    [][posted' = posted + 1 /\ ~is_valid(request') =>
          httpStatus' = 400 /\ pool' = pool /\ submitLog' = submitLog]_vars

\* {sender: "", receiver: "x", amount: 1} was posted to an empty pool
C9_Witness ==
    /\ posted >= 1
    /\ request = Transaction("", "x", 1)
    /\ httpStatus = 400
    /\ pool = <<>>
    /\ submitLog = <<>>

\* C10 (as stated): the first block contains the reward transaction.
C10_Original ==
    Len(chain) >= 1 => Reward \in Range(chain[1].transactions)

\* C10 (amended): the first block holds no transaction; the reward is
\* pending once the bootstrap pass has released the ledger, and it is the
\* content of the second block.
C10_RewardAfterGenesis ==
    /\ Len(chain) >= 1 => chain[1].transactions = <<>>
    /\ Len(chain) = 1 /\ holder = NoHolder => transactions = Some(<<Reward>>)
    /\ Len(chain) >= 2 => chain[2].transactions = <<Reward>>

\* the bootstrap pass is over and a second block has been sealed
C10_Witness ==
    /\ Len(chain) >= 2
    /\ chain[1].transactions = <<>>
    /\ Reward \in Range(chain[2].transactions)

(***************************************************************************)
(* Properties of the workers                                               *)
(***************************************************************************)
\* no MiningMessage has been received yet
NoneReceived == Len(mailbox) = sent

\* every worker has left started() and runs nothing
AllStarted == \A w \in Workers : pc[w] = "idle" /\ task[w] = "none"

\* C11: once every worker has finished started(), and before any mine
\* request has been received, the chain holds exactly one block.
C11_GenesisOnce ==
    (AllStarted /\ NoneReceived) => Len(chain) = 1

\* C12: a worker that is in its search, or between the push and the return
\* of mine_block, holds the Blockchain's lock; while a worker is in its
\* search, every step that changes the chain or the pending transactions is
\* a pass of that worker's own loop, and no other worker gets through
\* get_block_count or through the second lock of handle.
C12_SearchHoldsLock ==
    /\ [](\A w \in Workers : pc[w] \in {"search", "mined"} => holder = w)
    /\ [][\A w \in Workers : pc[w] = "search" =>
            /\ (<<chain, transactions>>' # <<chain, transactions>>
                   => (new_proof'[w] # new_proof[w] \/ pc'[w] # "search"))
            /\ \A u \in Workers \ {w} :
                   pc[u] \in {"new", "report"} => pc'[u] = pc[u]]_vars

C12_Witness ==
    \E w \in Workers, u \in Workers :
        /\ w # u
        /\ pc[w] = "search"
        /\ new_proof[w] > 0
        /\ pc[u] = "mine"

\* C13: every Result a worker returned for a MiningMessage has the status
\* "success" (the lock is never poisoned: no step of the program panics
\* while holding it).
C13_RequestsSucceed ==
    \A w \in Workers : reply[w].status \in {"none", "success"}

C13_Witness ==
    \E w \in Workers :
        /\ reply[w].status = "success"
        /\ sent = 1
        /\ Len(chain) = 2

\* MiningMessages answered so far
Completed == sent - Len(mailbox) - Cardinality({w \in Workers : task[w] = "handle"})

\* MiningMessages in progress whose block is already pushed
Pushed ==
    Cardinality({w \in Workers : task[w] = "handle" /\ pc[w] \in {"mined", "report"}})

\* blocks of the chain that no MiningMessage accounts for
Bootstrapped == Len(chain) - Completed - Pushed

\* C14: the height of the chain is the number of blocks pushed by started()
\* passes plus one per MiningMessage that has pushed: the number of blocks
\* no MiningMessage accounts for changes only when a started() pass pushes
\* its block, and then by one; no submission and no read of the tip changes
\* the height.
C14_OneBlockPerRequest ==
    [][\/ Bootstrapped' = Bootstrapped
       \/ /\ Bootstrapped' = Bootstrapped + 1
          /\ \E w \in Workers :
                task[w] = "started" /\ pc[w] = "search" /\ pc'[w] = "mined"]_vars

C14_Witness ==
    /\ AllStarted
    /\ Completed = 1
    /\ Bootstrapped = 2
    /\ Len(chain) = 3

\* C19: a "success" report carries the index and the serialised form of the
\* block this worker pushed for the request, and that block's proof is the
\* proof of the report.
C19_ReportsOwnBlock ==
    \A w \in Workers :
        reply[w].status = "success" =>
            /\ reply[w].index = sealed[w]
            /\ reply[w].block.proof = reply[w].proof

\* C15: the chain is append-only: every step leaves the blocks stored so
\* far unchanged, in place, as a prefix of the chain.
C15_AppendOnly ==
    [][/\ Len(chain') >= Len(chain)
       /\ SubSeq(chain', 1, Len(chain)) = chain]_vars

C15_Witness ==
    /\ Len(chain) = 2
    /\ chain[1].transactions # <<>>
    /\ chain[2].previous_hash # to_hash(chain[1])

\* C16: a get_count call leaves the pool as it was and returns its length,
\* the value every get_count call returned since the last push or drain.
C16_CountReadsOnly ==
    [][Len(counted') = Len(counted) + 1 =>
          /\ pool' = pool
          /\ counted'[Len(counted')] = Len(pool)
          /\ \A i \in DOMAIN counted : counted[i] = counted'[Len(counted')]]_vars

C16_Witness ==
    /\ Len(counted) = 2
    /\ counted[1] = 2
    /\ Len(pool) = 2

\* C17: for the payload of every POST /add_transaction, both is_valid
\* definitions are true exactly when sender and receiver are non-empty and
\* the amount is not zero (a negative amount passes), and the request is
\* answered 201 exactly then.
C17_IsValid ==
    posted > 0 =>
        LET ok == request.sender # "" /\ request.receiver # "" /\ request.amount # 0
        IN  /\ is_valid(request) = ok
            /\ blockchain_is_valid(request) = ok
            /\ (httpStatus = 201) = ok

C17_Witness ==
    /\ posted > 0
    /\ request.amount < 0
    /\ httpStatus = 201

\* C18: when a worker's search seals its block, the block holds every
\* transaction the submission path accepted since that search began.
C18_FoldedDuringSearch ==
    [][\A w \in Workers :
          (pc[w] = "search" /\ pc'[w] = "mined") =>
              \A i \in (begun[w] + 1)..Len(submitLog) :
                  submitLog[i] \in Range(chain'[Len(chain')].transactions)]_vars

\* C20: while a worker is in its search, holding the Blockchain's lock, the
\* pool's operations go ahead whenever the pool's own lock allows: a
\* submission, the start of a drain and a count can be taken when no caller
\* holds the pool, and a drain in progress can move on and return.
C20_PoolNeverBlocked ==
    \A w \in Workers :
        pc[w] = "search" =>
            /\ (poolHolder = NoHolder /\ posted < MaxPosts)
                  => \A t \in Posts : ENABLED HttpAddTransaction(t)
            /\ (poolHolder = NoHolder /\ Len(drainLog) < MaxDrains)
                  => \A c \in Callers : ENABLED IntoVecLock(c)
            /\ (poolHolder = NoHolder /\ Len(counted) < MaxCounts)
                  => ENABLED GetCount
            /\ \A c \in Callers :
                  poolHolder = c => ENABLED (IntoVecMove(c) \/ IntoVecReturn(c))

\* a submission, then a drain that returned it, then a count, all of them
\* after the search in progress took the Blockchain's lock
C20_Witness ==
    \E w \in Workers :
        /\ pc[w] = "search"
        /\ begun[w] = 0
        /\ Len(submitLog) = 1
        /\ drainLog = <<submitLog>>
        /\ counted = <<0>>

\* C21: a block pushed for a MiningMessage is never the first block: while
\* a worker serves a message and has pushed, the block it pushed has an
\* index of at least 2.
C21_RequestNeverGenesis ==
    \A w \in Workers :
        (task[w] = "handle" /\ pc[w] \in {"mined", "report"}) => sealed[w] >= 2

C21_Witness ==
    \E w \in Workers :
        /\ task[w] = "handle"
        /\ pc[w] = "mined"
        /\ sealed[w] = 2
        /\ Len(chain) = 2

(***************************************************************************)
(* Properties of the Blockchain's own operations                           *)
(***************************************************************************)
\* the transactions of the candidate a search in progress is working on
Candidates == Flatten([th \in 1..(NumWorkers + 1) |-> new_block[th].transactions])

\* every transaction the Blockchain holds: sealed ones in chain order, then
\* the candidate's, then the pending ones
LedgerOrder == SealedTransactions(chain) \o Candidates \o transactions.v

\* C22: the transactions of chain[1], chain[2], .. followed by the pending
\* ones (those of a candidate in between) are the transactions given to
\* add_transaction, in the order they were given: a step either leaves that
\* sequence as it is or appends the transaction just added.
C22_AcceptanceOrder ==
    /\ [](Range(LedgerOrder) = added /\ Len(LedgerOrder) = Cardinality(added))
    /\ [][\/ LedgerOrder' = LedgerOrder
          \/ \E t \in added' \ added : LedgerOrder' = Append(LedgerOrder, t)]_vars

C22_Witness ==
    /\ Len(chain) >= 1
    /\ Len(chain[1].transactions) = 2
    /\ transactions = None

\* C23: a search starts at proof 0; a pass that fails the prefix test raises
\* the proof by exactly 1 and nothing else changes it; the pass that matches
\* pushes a block whose proof field is the proof tried, which is the value
\* returned (the number of passes that failed).
C23_SequentialProof ==
    [][\A th \in Threads :
          /\ (pc[th] # "search" /\ pc'[th] = "search") => new_proof'[th] = 0
          /\ (pc[th] = "search" /\ pc'[th] = "search"
                /\ new_proof'[th] # new_proof[th])
                => /\ new_proof'[th] = new_proof[th] + 1
                   /\ ~proof_matches(Tried(th))
          /\ (pc[th] = "search" /\ pc'[th] # "search")
                => /\ proof_matches(Tried(th))
                   /\ proof'[th] = new_proof[th]
                   /\ Len(chain') = Len(chain) + 1
                   /\ chain'[Len(chain')].proof = new_proof[th]]_vars

C23_Witness ==
    /\ pc[Owner] = "idle"
    /\ Len(chain) = 1
    /\ proof[Owner] >= 2
    /\ chain[1].proof = proof[Owner]

\* the block build_block(p, h) has to push: next index, p and h as given,
\* the pending transactions, the current second
Built(p, h) ==
    [index |-> (IF chain = <<>> THEN 0 ELSE chain[Len(chain)].index) + 1,
     timestamp |-> now,
     proof |-> p,
     previous_hash |-> h,
     transactions |-> transactions.v]

\* C27: build_block validates nothing: whenever the owner may call it, it
\* goes through for every proof and every previous_hash, linked to the tip
\* or not, pushes exactly the block made of the next index, that proof, that
\* previous_hash and all pending transactions, and leaves none pending.
C27_BuildBlockUnchecked ==
    (pc[Owner] = "idle" /\ Len(chain) < MaxBlocks) =>
        \A p \in 0..1, h \in PreviousHashes :
            ENABLED (/\ OwnerBuildBlock(p, h)
                     /\ chain' = Append(chain, Built(p, h))
                     /\ transactions' = None)

\* a block pushed by build_block that neither links to the block before it
\* nor has a hash with the prefix
C27_Witness ==
    /\ Len(chain) = 2
    /\ chain[2].previous_hash # to_hash(chain[1])
    /\ ~proof_matches(chain[2])
    /\ chain[2].transactions # <<>>
    /\ transactions = None

\* C30: on the chain of every reachable state, get_last_block is None and
\* get_last_block_index is 0 when the chain is empty, and they are the last
\* block and its index otherwise.
C30_TipQueries ==
    IF chain = <<>>
    THEN /\ get_last_block(chain) = [some |-> FALSE, v |-> <<>>]
         /\ get_last_block_index(chain) = 0
    ELSE /\ get_last_block(chain) = [some |-> TRUE, v |-> chain[Len(chain)]]
         /\ get_last_block_index(chain) = chain[Len(chain)].index

C30_Witness ==
    /\ Len(chain) = 2
    /\ get_last_block(chain).v.index = 2
    /\ get_last_block_index(chain) = 2
    /\ pc[Owner] = "idle"

\* mine_block calls that have returned: blocks pushed, less those whose
\* worker has not queued its reward yet
PassesDone == Len(chain) - Cardinality({w \in Workers : pc[w] = "mined"})

\* C28: the reward transactions in the chain, in a candidate and pending
\* are as many as the mine_block calls that have returned, and no block
\* holds more than one of them.
C28_RewardAccounting ==
    /\ Occurrences(Reward, LedgerOrder) = PassesDone
    /\ \A k \in 1..Len(chain) : Occurrences(Reward, chain[k].transactions) <= 1

C28_Witness ==
    /\ AllStarted
    /\ Len(chain) = 3
    /\ Occurrences(Reward, SealedTransactions(chain)) = 2
    /\ transactions = Some(<<Reward>>)

\* no worker stays in its search for ever
SearchesEnd == \A w \in Workers : []<>(pc[w] # "search")

\* C24: if every search ends, then again and again no MiningMessage is
\* waiting or being served: every message sent is answered.
C24_EveryRequestAnswered == SearchesEnd => []<>(Completed = sent)

C24_Witness ==
    /\ sent = 1
    /\ Completed = 1
    /\ \E w \in Workers : reply[w].status = "success" /\ reply[w].index = 3

(***************************************************************************)
(* Properties under a poisoned lock                                        *)
(***************************************************************************)
\* C25: a MiningMessage answered "failed" has pushed no block: the step
\* that gives the answer is not taken by a worker that sealed a block while
\* serving that message.
C25_FailedAppendsNothing ==
    [][\A w \in Workers :
          (reply'[w].status = "failed" /\ reply[w].status # "failed")
              => ~HandledPass(w)]_vars

\* C26: on a poisoned pool a valid POST /add_transaction is answered 500,
\* the status "failed" of add_transaction, and leaves pool and log as they
\* are; a count returns the pool's length and leaves the pool as it is; and
\* each pushed transaction stays in exactly one place: a returned Vec, the
\* export of the drain in progress, or the pool.
C26_PoisonedPool ==
    /\ [](poolPoisoned =>
            \A i \in DOMAIN submitLog :
                Occurrences(submitLog[i], Flatten(drainLog) \o InFlight \o pool)
                    = Occurrences(submitLog[i], submitLog))
    /\ [][poolPoisoned =>
            /\ (posted' = posted + 1 /\ is_valid(request'))
                  => /\ httpStatus' = 500
                     /\ add_transaction_result(poolPoisoned) = "failed"
                     /\ pool' = pool
                     /\ submitLog' = submitLog
            /\ Len(counted') = Len(counted) + 1
                  => /\ counted'[Len(counted')] = Len(pool)
                     /\ pool' = pool
            /\ Len(drainLog') = Len(drainLog) + 1
                  => /\ pool' = <<>>
                     /\ drainLog'[Len(drainLog')] = InFlight]_vars

\* on a poisoned pool a submission was refused and a drain returned the
\* transaction pushed before
C26_Witness ==
    /\ poolPoisoned
    /\ httpStatus = 500
    /\ Len(submitLog) = 1
    /\ drainLog = <<submitLog>>
    /\ pool = <<>>

\* C29: no MiningMessage is answered "empty", with or without a poisoned
\* lock: when a handler is about to read the tip after its own mine_block
\* returned Ok, the chain is not empty.
C29_NeverEmpty ==
    \A w \in Workers :
        /\ reply[w].status # "empty"
        /\ pc[w] = "report" => chain # <<>>

C29_Witness ==
    \E w \in Workers, u \in Workers :
        /\ reply[w].status = "success"
        /\ pc[u] = "dead"
        /\ poisoned

(***************************************************************************)
(* Properties of the standalone proof_of_work                              *)
(***************************************************************************)
\* C31: in no pass of the standalone search does the arithmetic of
\* new_proof^2 - previous_proof^2 leave the range of the unsigned type: it
\* neither panics nor wraps.
C31_ArithmeticInRange ==
    solo.outcome \in {"none", "exact"}

====
